---------------------------- MODULE Spec2Model ----------------------------
(***************************************************************************)
(* Model of caligo's per-invocation response API (caligo/command.py):      *)
(* Context.respond, Context.respond_multi, Context.respond_split and the   *)
(* deferred delete() task that respond schedules; of the args accessor of  *)
(* a Context and the command decorators read by Command; and of the bot's  *)
(* life from create_and_run to the end of stop() (caligo/core/bot.py).     *)
(*                                                                         *)
(* Strings are modelled by what slicing does to them.  A text is a slice   *)
(* [src, lo, hi) of a source string: src says which string ("raw": the     *)
(* caller's text, "redacted": the output of bot.redact_message), lo and hi *)
(* the positions of the slice in it.  text[:n] and text[n:] move hi and lo *)
(* exactly as Python's slicing does, so two slices are equal iff they hold *)
(* the same characters of the same string.  A page is a slice with an      *)
(* optional "..." in front and behind.                                     *)
(***************************************************************************)
EXTENDS Integers, Sequences, FiniteSets, TLC

\* ------------------------------------------------------------------ bounds
\* Text lengths lie within Slack of k * MESSAGE_CHAR_LIMIT, k in 0..MaxMult.
MaxMult == 2
Slack == 8
\* max_pages arguments are drawn from -1..MaxPages.
MaxPages == 3
\* delete_after arguments are drawn from 0..MaxDelay.
MaxDelay == 1
\* A handler makes at most MaxCalls calls of the response API.
MaxCalls == 2
\* A command is given at most MaxSegs arguments after its name.
MaxSegs == 2
\* At most MaxGets attribute lookups are made on a context.
MaxGets == 3
\* At most MaxAnnot decorators are applied to a command function.
MaxAnnot == 3

\* --------------------------------------------------------------- constants
\* util.tg.MESSAGE_CHAR_LIMIT (the transport's character ceiling).
MESSAGE_CHAR_LIMIT == 4096

\* None, for a message handle (self.response = None, last_msg = None).
NoMsg == 0

\* Contexts in flight; context c was built for the triggering message msg(c).
Contexts == {1, 2}
msg(c) == c

\* The handle of the first message the transport creates.
FirstHandle == Cardinality(Contexts) + 1

\* mode: None or a mode name.
Modes == {"None", "reply", "edit"}

Min(a, b) == IF a < b THEN a ELSE b

\* ------------------------------------------------------------------ strings
Text(src, n) == [src |-> src, lo |-> 0, hi |-> n]

\* len(text)
StrLen(t) == t.hi - t.lo

\* text[:n], n >= 0
Take(t, n) == [t EXCEPT !.hi = Min(t.lo + n, t.hi)]

\* text[n:], n >= 0
Drop(t, n) == [t EXCEPT !.lo = Min(t.lo + n, t.hi)]

\* A page: body, with "..." in front when pre and "..." behind when suf.
Page(pre, body, suf) == [pre |-> pre, body |-> body, suf |-> suf]

\* A text sent as it is.
Plain(t) == Page(FALSE, t, FALSE)

\* len(page): len("...") = 3 for each marker added.
PageLen(p) ==
    (IF p.pre THEN 3 ELSE 0) + StrLen(p.body) + (IF p.suf THEN 3 ELSE 0)

\* The lengths of the texts the handlers send.
TextLens ==
    { n \in 0 .. (MaxMult * MESSAGE_CHAR_LIMIT + Slack) :
        \E k \in 0 .. MaxMult :
            /\ n >= k * MESSAGE_CHAR_LIMIT - Slack
            /\ n <= k * MESSAGE_CHAR_LIMIT + Slack }

\* bot.redact_message(text): the sensitive substrings are replaced by a
\* placeholder, which gives another string, of the same length or one
\* shorter or longer; an empty text has nothing to replace and stays empty.
RedactResults(t) ==
    { Text("redacted", n) :
        n \in {StrLen(t)} \cup
              (IF StrLen(t) > 0 THEN {StrLen(t) + 1} ELSE {}) \cup
              (IF StrLen(t) > 1 THEN {StrLen(t) - 1} ELSE {}) }


\* ------------------------------------------------------------------ state
VARIABLES
    config,         \* bot.config["bot"]: redact_responses, overflow_page_limit
    response,       \* self.response of each context (NoMsg: None)
    response_mode,  \* self.response_mode of each context
    pc,             \* each handler: "idle", or "awaiting" bot.respond
    frame,          \* each handler's current (or last) call and its locals
    calls,          \* the number of calls each handler has made
    log,            \* the requests made of bot.respond, in order, with outcome
    tasks,          \* the delete() tasks created on bot.loop
    nextHandle      \* the handle of the next message the transport creates

VARIABLES
    bot,            \* the Bot: made (bot is not None), stopping, loaded, ...
    main,           \* the position of create_and_run
    stop,           \* the position of Bot.stop() and the task running it
    loop,           \* the event loop: "running" or "stopped"
    segments,       \* self.segments of each context
    args,           \* self.args in each context's __dict__ (<<>>: not set)
    lookups,        \* the attribute lookups made on each context, in order
    nextObj,        \* the identity of the next sequence object created
    func,           \* the _cmd_* attributes set on a command function
    applied,        \* the decorators applied to the function, in order
    command         \* the Command built from the function (<<>>: none yet)

\* The bot and its event loop.
botvars == <<bot, main, stop, loop>>

\* The argument segments of the contexts.
argsvars == <<segments, args, lookups, nextObj>>

\* A command function and its Command.
cmdvars == <<func, applied, command>>

vars == <<config, response, response_mode, pc, frame, calls, log, tasks,
          nextHandle, botvars, argsvars, cmdvars>>

\* The fields of a context that respond and respond_multi read.
Self(c) ==
    [msg |-> msg(c), response |-> response[c],
     response_mode |-> response_mode[c]]

\* ---------------------------------------------------------------- respond
\* respond reusing the response whatever the mode of the last one was.
respond_reuse_any(self, text, mode, redact, m, reuse_response, delete_after) ==
    [msg |-> IF m # NoMsg THEN m ELSE self.msg,
     text |-> text,
     mode |-> mode,
     redact |-> redact,
     response |-> IF reuse_response THEN self.response ELSE NoMsg,
     delete_after |-> delete_after]

\* The call of bot.respond at the head of Context.respond; every argument,
\* the response to reuse included, is evaluated before the await.
respond(self, text, mode, redact, m, reuse_response, delete_after) ==
    [msg |-> IF m # NoMsg THEN m ELSE self.msg,
     text |-> text,
     mode |-> mode,
     redact |-> redact,
     response |-> IF reuse_response /\ mode = self.response_mode
                  THEN self.response ELSE NoMsg,
     delete_after |-> delete_after]

\* respond_multi defaulting the mode but not the message replied to.
respond_multi_mode_only(self, text, mode, redact, m, reuse_response, delete_after) ==
    [msg |-> IF m # NoMsg THEN m ELSE self.msg,
     text |-> text,
     mode |-> IF self.response # NoMsg /\ mode = "None" THEN "reply" ELSE mode,
     redact |-> redact,
     response |-> NoMsg,
     delete_after |-> delete_after]

\* Context.respond_multi: once there is a response, reply to it by default.
\* (reuse_response = None is turned into False, which respond treats alike.)
respond_multi(self, text, mode, redact, m, reuse_response, delete_after) ==
    IF self.response # NoMsg
    THEN respond(self, text,
                 IF mode = "None" THEN "reply" ELSE mode,
                 redact,
                 IF m = NoMsg THEN self.response ELSE m,
                 reuse_response, delete_after)
    ELSE respond(self, text, mode, redact, m, reuse_response, delete_after)

\* ----------------------------------------------------------- respond_split
\* The loop's table with three of its entries left open: fits, the test of
\* the first row; room, the characters the second marker is given; last,
\* the body of the last page max_pages allows.
split_table(text, pages_sent, max_pages, fits, room, last) ==
    IF fits
    THEN IF pages_sent = 0
         THEN [page |-> Page(FALSE, Take(text, MESSAGE_CHAR_LIMIT), FALSE),
               ellipsis_chars |-> 0]
         ELSE [page |-> Page(TRUE, Take(text, MESSAGE_CHAR_LIMIT - 3), FALSE),
               ellipsis_chars |-> 3]
    ELSE IF pages_sent = max_pages - 1
    THEN IF pages_sent = 0
         THEN [page |-> Page(FALSE, last, FALSE), ellipsis_chars |-> 0]
         ELSE [page |-> Page(TRUE, last, FALSE), ellipsis_chars |-> 3]
    ELSE IF pages_sent = 0
         THEN [page |-> Page(FALSE, Take(text, MESSAGE_CHAR_LIMIT - 3), TRUE),
               ellipsis_chars |-> 3]
         ELSE [page |-> Page(TRUE, Take(text, MESSAGE_CHAR_LIMIT - 3 - room),
                             TRUE),
               ellipsis_chars |-> 6]

\* split_page leaving no room for the second marker of a page.
split_page_no_room(text, pages_sent, max_pages) ==
    split_table(text, pages_sent, max_pages, StrLen(text) <= 4096, 0, text)

\* split_page with < for <= in its first test.
split_page_strict(text, pages_sent, max_pages) ==
    split_table(text, pages_sent, max_pages, StrLen(text) < 4096, 3, text)

\* split_page cutting the last page allowed like any other.
split_page_cut_last(text, pages_sent, max_pages) ==
    split_table(text, pages_sent, max_pages, StrLen(text) <= 4096, 3,
                Take(text, MESSAGE_CHAR_LIMIT))

\* The body of the loop up to the send: the page and ellipsis_chars.
split_page(text, pages_sent, max_pages) ==
    IF StrLen(text) <= 4096
    THEN IF pages_sent = 0
         THEN [page |-> Page(FALSE, Take(text, MESSAGE_CHAR_LIMIT), FALSE),
               ellipsis_chars |-> 0]
         ELSE [page |-> Page(TRUE, Take(text, MESSAGE_CHAR_LIMIT - 3), FALSE),
               ellipsis_chars |-> 3]
    ELSE IF pages_sent = max_pages - 1
    THEN IF pages_sent = 0
         THEN [page |-> Page(FALSE, text, FALSE), ellipsis_chars |-> 0]
         ELSE [page |-> Page(TRUE, text, FALSE), ellipsis_chars |-> 3]
    ELSE IF pages_sent = 0
         THEN [page |-> Page(FALSE, Take(text, MESSAGE_CHAR_LIMIT - 3), TRUE),
               ellipsis_chars |-> 3]
         ELSE [page |-> Page(TRUE, Take(text, MESSAGE_CHAR_LIMIT - 6), TRUE),
               ellipsis_chars |-> 6]

\* split_advance moving on by a whole page whatever was consumed.
split_advance_whole(text, ellipsis_chars) == Drop(text, MESSAGE_CHAR_LIMIT)

\* split_advance leaving the text as it is.
split_advance_stuck(text, ellipsis_chars) == text

\* text = text[MESSAGE_CHAR_LIMIT - ellipsis_chars:]
split_advance(text, ellipsis_chars) ==
    Drop(text, MESSAGE_CHAR_LIMIT - ellipsis_chars)

\* split_continues without the test of the text.
split_continues_any_text(text, pages_sent, max_pages) == pages_sent < max_pages

\* while text and pages_sent < max_pages
split_continues(text, pages_sent, max_pages) ==
    StrLen(text) > 0 /\ pages_sent < max_pages

\* The keyword arguments respond_split hands on to respond_multi: redact is
\* a parameter of respond_split itself, so respond sees its default, True.
NoKwargs ==
    [mode |-> "None", msg |-> NoMsg, reuse_response |-> FALSE,
     delete_after |-> 0]

\* last_msg = await self.respond_multi(page, **kwargs), up to the await.
split_send(self, f) ==
    respond_multi(self,
                  split_page(f.text, f.pages_sent, f.max_pages).page,
                  f.kwargs.mode, TRUE, f.kwargs.msg,
                  f.kwargs.reuse_response, f.kwargs.delete_after)

\* The defaults of the keyword arguments of respond and respond_multi.
DefaultArgs ==
    [mode |-> "None", redact |-> TRUE, msg |-> NoMsg,
     reuse_response |-> FALSE, delete_after |-> 0]

\* A handler that has made no call.
NoFrame ==
    [kind |-> "none", outcome |-> "none", value |-> NoMsg,
     req |-> respond([msg |-> NoMsg, response |-> NoMsg,
                      response_mode |-> "None"],
                     Plain(Text("raw", 0)), "None", TRUE, NoMsg, FALSE, 0),
     input |-> Text("raw", 0), redact |-> FALSE, start |-> Text("raw", 0),
     text |-> Text("raw", 0), pages_sent |-> 0, max_pages |-> 0,
     last_msg |-> NoMsg, kwargs |-> NoKwargs, args |-> DefaultArgs]

\* ------------------------------------------------------------------- Init
\* The bot before create_and_run has made it.
NoBot ==
    [made |-> FALSE, stopping |-> FALSE, loaded |-> FALSE, http |-> "none",
     aria |-> "none", client_initialized |-> FALSE]

\* Bot.stop() not called.
NoStop == [pc |-> "none", by |-> "none"]

\* A function no decorator has been applied to: no _cmd_* attribute is set.
NoAttrs ==
    [cmd_description |-> <<>>, cmd_usage |-> <<>>, cmd_usage_optional |-> <<>>,
     cmd_usage_reply |-> <<>>, cmd_aliases |-> <<>>, cmd_pattern |-> <<>>]

\* The state once the contexts are constructed, their segments among Segs:
\* no response, no request made, args not yet looked up; the bot's
\* create_and_run about to start, and a function not yet decorated.
InitWith(Segs) ==
    /\ config \in [redact_responses : BOOLEAN, overflow_page_limit : {MaxPages}]
    /\ response = [c \in Contexts |-> NoMsg]
    /\ response_mode = [c \in Contexts |-> "None"]
    /\ pc = [c \in Contexts |-> "idle"]
    /\ frame = [c \in Contexts |-> NoFrame]
    /\ calls = [c \in Contexts |-> 0]
    /\ log = <<>>
    /\ tasks = <<>>
    /\ nextHandle = FirstHandle
    /\ bot = NoBot
    /\ main = "start"
    /\ stop = NoStop
    /\ loop = "running"
    /\ segments \in [Contexts -> Segs]
    /\ args = [c \in Contexts |-> <<>>]
    /\ lookups = [c \in Contexts |-> <<>>]
    /\ nextObj = 1
    /\ func = NoAttrs
    /\ applied = <<>>
    /\ command = <<>>

\* Contexts of a command given no argument.
Init == InitWith({<<"cmd">>})

\* ------------------------------------------------------------ the handlers
\* The handler of context c enters a call whose first request is req.
Enter(c, f, req) ==
    /\ frame' = [frame EXCEPT ![c] = [f EXCEPT !.req = req]]
    /\ pc' = [pc EXCEPT ![c] = "awaiting"]
    /\ calls' = [calls EXCEPT ![c] = @ + 1]
    /\ UNCHANGED <<botvars, argsvars, cmdvars,
                   config, response, response_mode, log, tasks, nextHandle>>

\* The message arguments a handler passes: none, or a message of the chat.
MsgArgs(c) == {NoMsg} \cup (Contexts \ {c})

\* The keyword arguments of respond and respond_multi.
RespondArgs(c) ==
    [mode : Modes, redact : BOOLEAN, msg : MsgArgs(c),
     reuse_response : BOOLEAN, delete_after : 0 .. MaxDelay]

\* await ctx.respond(text, **a), for some a in Args, up to its await.
CallRespond(c, Args) ==
    /\ pc[c] = "idle"
    /\ \E a \in Args :
          Enter(c, [NoFrame EXCEPT !.kind = "respond", !.args = a],
                respond(Self(c), Plain(Text("raw", 1)), a.mode, a.redact,
                        a.msg, a.reuse_response, a.delete_after))

\* await ctx.respond_multi(text, **a), for some a in Args, up to its await.
CallRespondMulti(c, Args) ==
    /\ pc[c] = "idle"
    /\ \E a \in Args :
          Enter(c, [NoFrame EXCEPT !.kind = "respond_multi", !.args = a],
                respond_multi(Self(c), Plain(Text("raw", 1)), a.mode,
                              a.redact, a.msg, a.reuse_response,
                              a.delete_after))

\* max_pages as passed: an integer, or left unset (None).
PagesArgs ==
    {[given |-> TRUE, value |-> v] : v \in (-1) .. MaxPages}
        \cup {[given |-> FALSE, value |-> 0]}

\* await ctx.respond_split(text, max_pages=, redact=, **kwargs), up to its
\* first await; with nothing to send it returns last_msg = None at once.
CallRespondSplitOf(c, Lens, Kwargs) ==
    /\ pc[c] = "idle"
    /\ \E n \in Lens, redactArg \in {"None", "True", "False"},
          pagesArg \in PagesArgs, kwargs \in Kwargs :
        LET input == Text("raw", n)
            redact == IF redactArg = "None" THEN config.redact_responses
                      ELSE redactArg = "True"
            max_pages == IF pagesArg.given THEN pagesArg.value
                         ELSE config.overflow_page_limit
        IN  \E text \in (IF redact THEN RedactResults(input) ELSE {input}) :
              LET f == [NoFrame EXCEPT
                          !.kind = "respond_split", !.input = input,
                          !.redact = redact, !.start = text, !.text = text,
                          !.pages_sent = 0, !.max_pages = max_pages,
                          !.last_msg = NoMsg,
                          !.kwargs = kwargs]
              IN  IF split_continues(f.text, f.pages_sent, f.max_pages)
                  THEN Enter(c, f, split_send(Self(c), f))
                  ELSE /\ frame' = [frame EXCEPT ![c] =
                                      [f EXCEPT !.outcome = "returned",
                                                !.value = f.last_msg]]
                       /\ calls' = [calls EXCEPT ![c] = @ + 1]
                       /\ UNCHANGED <<botvars, argsvars, cmdvars,
                                      config, response, response_mode, pc,
                                      log, tasks, nextHandle>>

\* respond_split called with a text of any of the lengths of TextLens.
CallRespondSplit(c, Kwargs) == CallRespondSplitOf(c, TextLens, Kwargs)

\* ------------------------------------------------------------ bot.respond
\* The transport's answer to a request: the message it edited when it was
\* given a response to edit, a new message otherwise.
bot_respond(req, fresh) == IF req.response # NoMsg THEN req.response ELSE fresh

\* if delete_after != 0: self.bot.loop.create_task(delete())
schedule_delete(c, req, sent) ==
    IF req.delete_after # 0
    THEN Append(tasks, [ctx |-> c, delete_after |-> req.delete_after,
                        slept |-> 0, state |-> "sleeping", sent |-> sent,
                        target |-> NoMsg])
    ELSE tasks

\* What the caller of respond does with the handle h it returns, up to the
\* caller's next await or return; self is the context after respond.
resume(self, f, h) ==
    IF f.kind = "respond_split"
    THEN LET g == [f EXCEPT
                     !.last_msg = h,
                     !.text = split_advance(
                                  f.text,
                                  split_page(f.text, f.pages_sent,
                                             f.max_pages).ellipsis_chars),
                     !.pages_sent = f.pages_sent + 1]
         IN  IF split_continues(g.text, g.pages_sent, g.max_pages)
             THEN [g EXCEPT !.req = split_send(self, g)]
             ELSE [g EXCEPT !.outcome = "returned", !.value = g.last_msg]
    ELSE [f EXCEPT !.outcome = "returned", !.value = h]

\* TransportReturns storing the message in one response shared by every
\* context.
TransportReturns_shared(c) ==
    /\ pc[c] = "awaiting"
    /\ LET req == frame[c].req
           h == bot_respond(req, nextHandle)
           self == [msg |-> msg(c), response |-> h, response_mode |-> req.mode]
           f == resume(self, frame[c], h)
       IN  /\ response' = [d \in Contexts |-> h]
           /\ response_mode' = [response_mode EXCEPT ![c] = req.mode]
           /\ tasks' = schedule_delete(c, req, h)
           /\ log' = Append(log, [ctx |-> c, call |-> calls[c], req |-> req,
                                  ok |-> TRUE, handle |-> h])
           /\ nextHandle' = IF h = nextHandle THEN nextHandle + 1
                            ELSE nextHandle
           /\ frame' = [frame EXCEPT ![c] = f]
           /\ pc' = [pc EXCEPT ![c] =
                        IF f.outcome = "returned" THEN "idle" ELSE "awaiting"]
    /\ UNCHANGED <<botvars, argsvars, cmdvars,
                   config, calls>>

\* bot.respond returns: respond stores the message and the mode, schedules
\* the deletion and returns the message; the caller runs on to its next
\* await.
TransportReturns(c) ==
    /\ pc[c] = "awaiting"
    /\ LET req == frame[c].req
           h == bot_respond(req, nextHandle)
           self == [msg |-> msg(c), response |-> h, response_mode |-> req.mode]
           f == resume(self, frame[c], h)
       IN  /\ response' = [response EXCEPT ![c] = h]
           /\ response_mode' = [response_mode EXCEPT ![c] = req.mode]
           /\ tasks' = schedule_delete(c, req, h)
           /\ log' = Append(log, [ctx |-> c, call |-> calls[c], req |-> req,
                                  ok |-> TRUE, handle |-> h])
           /\ nextHandle' = IF h = nextHandle THEN nextHandle + 1
                            ELSE nextHandle
           /\ frame' = [frame EXCEPT ![c] = f]
           /\ pc' = [pc EXCEPT ![c] =
                        IF f.outcome = "returned" THEN "idle" ELSE "awaiting"]
    /\ UNCHANGED <<botvars, argsvars, cmdvars,
                   config, calls>>

\* TransportFails with the response given up before the call.
TransportFails_response_lost(c) ==
    /\ pc[c] = "awaiting"
    /\ log' = Append(log, [ctx |-> c, call |-> calls[c], req |-> frame[c].req,
                           ok |-> FALSE, handle |-> NoMsg])
    /\ frame' = [frame EXCEPT ![c] = [@ EXCEPT !.outcome = "raised"]]
    /\ pc' = [pc EXCEPT ![c] = "idle"]
    /\ response' = [response EXCEPT ![c] = NoMsg]
    /\ UNCHANGED <<botvars, argsvars, cmdvars,
                   config, response_mode, calls, tasks, nextHandle>>

\* TransportFails with the mode recorded before the call.
TransportFails_mode_recorded(c) ==
    /\ pc[c] = "awaiting"
    /\ log' = Append(log, [ctx |-> c, call |-> calls[c], req |-> frame[c].req,
                           ok |-> FALSE, handle |-> NoMsg])
    /\ frame' = [frame EXCEPT ![c] = [@ EXCEPT !.outcome = "raised"]]
    /\ pc' = [pc EXCEPT ![c] = "idle"]
    /\ response_mode' = [response_mode EXCEPT ![c] = frame[c].req.mode]
    /\ UNCHANGED <<botvars, argsvars, cmdvars,
                   config, response, calls, tasks, nextHandle>>

\* bot.respond raises: neither respond, respond_multi nor respond_split
\* catches, so the call ends with the error.
TransportFails(c) ==
    /\ pc[c] = "awaiting"
    /\ log' = Append(log, [ctx |-> c, call |-> calls[c], req |-> frame[c].req,
                           ok |-> FALSE, handle |-> NoMsg])
    /\ frame' = [frame EXCEPT ![c] = [@ EXCEPT !.outcome = "raised"]]
    /\ pc' = [pc EXCEPT ![c] = "idle"]
    /\ UNCHANGED <<botvars, argsvars, cmdvars,
                   config, response, response_mode, calls, tasks, nextHandle>>

\* ------------------------------------------------------- the delete() tasks
\* Time passes: one more unit for every task still in asyncio.sleep.
Tick ==
    /\ \E i \in DOMAIN tasks :
          tasks[i].state = "sleeping" /\ tasks[i].slept < tasks[i].delete_after
    /\ tasks' = [i \in DOMAIN tasks |->
                    IF tasks[i].state = "sleeping"
                       /\ tasks[i].slept < tasks[i].delete_after
                    THEN [tasks[i] EXCEPT !.slept = @ + 1]
                    ELSE tasks[i]]
    /\ UNCHANGED <<botvars, argsvars, cmdvars,
                   config, response, response_mode, pc, frame, calls, log,
                   nextHandle>>

\* sleep_over with the sleep left out.
sleep_over_at_once(t) == TRUE

\* await asyncio.sleep(delete_after) is over.
sleep_over(t) == t.slept >= t.delete_after

\* The message delete() deletes: self.response, read after the sleep.
delete_target(t) == response[t.ctx]

\* return await self.response.delete()
DeleteRuns(i) ==
    /\ tasks[i].state = "sleeping"
    /\ sleep_over(tasks[i])
    /\ tasks' = [tasks EXCEPT ![i] = [@ EXCEPT !.state = "done",
                                               !.target = delete_target(tasks[i])]]
    /\ UNCHANGED <<botvars, argsvars, cmdvars,
                   config, response, response_mode, pc, frame, calls, log,
                   nextHandle>>

\* The deletion raises: the error stays in the task.
DeleteFails(i) ==
    /\ tasks[i].state = "sleeping"
    /\ sleep_over(tasks[i])
    /\ tasks' = [tasks EXCEPT ![i] = [@ EXCEPT !.state = "failed",
                                               !.target = delete_target(tasks[i])]]
    /\ UNCHANGED <<botvars, argsvars, cmdvars,
                   config, response, response_mode, pc, frame, calls, log,
                   nextHandle>>

\* --------------------------------------------------------- specifications
\* The arguments the handler of Spec passes: redact is left at its default
\* and a deletion is asked for after MaxDelay or not at all.
SpecArgs(c) ==
    {a \in RespondArgs(c) : a.redact /\ a.delete_after \in {0, MaxDelay}}

\* One handler using respond and respond_multi, and its delete() tasks.
Next ==
    \/ calls[1] < MaxCalls /\ CallRespond(1, SpecArgs(1))
    \/ calls[1] < MaxCalls /\ CallRespondMulti(1, SpecArgs(1))
    \/ TransportReturns(1)
    \/ TransportFails(1)
    \/ Tick
    \/ \E i \in DOMAIN tasks : DeleteRuns(i)
    \/ \E i \in DOMAIN tasks : DeleteFails(i)

Spec == Init /\ [][Next]_vars

\* One handler calling respond_split once, as its first call or after a
\* respond.
SplitNext ==
    \/ calls[1] = 0 /\ CallRespond(1, {DefaultArgs})
    \/ /\ frame[1].kind # "respond_split"
       /\ CallRespondSplit(1, {NoKwargs})
    \/ TransportReturns(1)
    \/ TransportFails(1)

SplitSpec == Init /\ [][SplitNext]_vars

\* SplitSpec with every call of bot.respond coming back, with a message or
\* with an error.
SplitLive ==
    /\ Init
    /\ [][SplitNext]_vars
    /\ WF_vars(TransportReturns(1) \/ TransportFails(1))

\* The keyword arguments the handler of SplitKwSpec passes on: none, or a
\* deletion after MaxDelay.
SplitKwargs == {NoKwargs, [NoKwargs EXCEPT !.delete_after = MaxDelay]}

\* One handler calling respond_split once with keyword arguments, as its
\* first call or after a respond, and the delete() tasks.
SplitKwNext ==
    \/ calls[1] = 0 /\ CallRespond(1, {DefaultArgs})
    \/ /\ frame[1].kind # "respond_split"
       /\ CallRespondSplit(1, SplitKwargs)
    \/ TransportReturns(1)
    \/ TransportFails(1)
    \/ Tick
    \/ \E i \in DOMAIN tasks : DeleteRuns(i)
    \/ \E i \in DOMAIN tasks : DeleteFails(i)

SplitKwSpec == Init /\ [][SplitKwNext]_vars

\* The arguments the handlers of MultiSpec pass to respond: the defaults,
\* or the last response to be reused.
MultiArgs == {DefaultArgs, [DefaultArgs EXCEPT !.reuse_response = TRUE]}

\* The handlers of MultiSpec pass respond_split a text of one character
\* more than a message holds, with redaction off and max_pages left to the
\* configuration.
MultiSplit(c) ==
    /\ frame'[c].start = frame'[c].input
    /\ frame'[c].max_pages = config.overflow_page_limit

\* The calls the handlers of MultiSpec may still make between them.
MultiBudget == calls[1] + calls[2] <= MaxCalls

\* A handler for each context, each awaiting one call after the other, the
\* handlers running interleaved on the one event loop.
MultiNext ==
    \/ \E c \in Contexts : MultiBudget /\ CallRespond(c, MultiArgs)
    \/ \E c \in Contexts : MultiBudget /\ CallRespondMulti(c, {DefaultArgs})
    \/ \E c \in Contexts :
          /\ MultiBudget
          /\ CallRespondSplitOf(c, {MESSAGE_CHAR_LIMIT + 1}, {NoKwargs})
          /\ MultiSplit(c)
    \/ \E c \in Contexts : TransportReturns(c)
    \/ \E c \in Contexts : TransportFails(c)

MultiSpec == Init /\ [][MultiNext]_vars

\* ------------------------------------------------------------ Context.args
\* The words of a command's arguments.
ArgWords == {"a", "b"}

\* The segments of a command message: the invoker, then the arguments.
Segs ==
    {<<"cmd">> \o w : w \in UNION {[1 .. n -> ArgWords] : n \in 0 .. MaxSegs}}

\* The attribute names looked up on a context: args, and a name that no
\* context has.
AttrNames == {"args", "arg"}

\* seq[1:]
slice_from_1(seq) == SubSeq(seq, 2, Len(seq))

\* The normal attribute lookup finds name in the instance: of the names
\* looked up here only args can be there, once it has been assigned.
in_dict(c, name) == name = "args" /\ args[c] # <<>>

\* set_args with the assignment left out.
set_args_dropped(obj) == <<>>

\* self.args = obj
set_args(obj) == <<obj>>

\* An attribute lookup that ended: what was looked up, how it ended, the
\* object it returned (if any) and whether it ran _get_args.
Lookup(name, outcome, value, computed) ==
    [name |-> name, outcome |-> outcome, value |-> value,
     computed |-> computed]

\* ctx.<name>: the instance's own attribute if it has one, else
\* Context.__getattr__, which computes and stores args and raises for any
\* other name. The slice segments[1:] is a new sequence object.
GetAttr(c, name) ==
    /\ Len(lookups[c]) < MaxGets
    /\ IF in_dict(c, name)
       THEN /\ lookups' = [lookups EXCEPT ![c] =
                              Append(@, Lookup(name, "returned", args[c],
                                               FALSE))]
            /\ UNCHANGED <<args, nextObj>>
       ELSE IF name = "args"
       THEN LET obj == [id |-> nextObj, items |-> slice_from_1(segments[c])]
            IN  /\ args' = [args EXCEPT ![c] = set_args(obj)]
                /\ nextObj' = nextObj + 1
                /\ lookups' = [lookups EXCEPT ![c] =
                                  Append(@, Lookup(name, "returned", <<obj>>,
                                                   TRUE))]
       ELSE /\ lookups' = [lookups EXCEPT ![c] =
                              Append(@, Lookup(name, "AttributeError", <<>>,
                                               FALSE))]
            /\ UNCHANGED <<args, nextObj>>
    /\ UNCHANGED <<botvars, cmdvars, segments, config, response,
                   response_mode, pc, frame, calls, log, tasks, nextHandle>>

\* Handlers looking attributes up on their contexts.
ArgsNext == \E c \in Contexts, name \in AttrNames : GetAttr(c, name)

\* Contexts of commands with up to MaxSegs arguments.
ArgsSpec == InitWith(Segs) /\ [][ArgsNext]_vars

\* ----------------------------------------------------- command decorators
\* The arguments the decorators are given.
Descs == {"d1", "d2"}
Usages == {"u1", "u2"}
AliasArgs == {<<>>, <<"a1">>, <<"a1", "a2">>}
Patterns == {"p1", "p2"}

\* re.compile(p): a pattern object made from the string.
re_compile(p) == [pattern |-> p]

\* getattr(func, name, default), opt being the attribute if it is set.
getattr(opt, default) == IF opt # <<>> THEN opt[1] ELSE default

\* desc(_desc)(func)
desc(f, d) == [f EXCEPT !.cmd_description = <<d>>]

\* usage setting the text and leaving the flags as they are.
usage_text_only(f, u, optional, reply) == [f EXCEPT !.cmd_usage = <<u>>]

\* usage(_usage, optional, reply)(func)
usage(f, u, optional, reply) ==
    [f EXCEPT !.cmd_usage = <<u>>, !.cmd_usage_optional = <<optional>>,
              !.cmd_usage_reply = <<reply>>]

\* alias(*aliases)(func)
alias(f, aliases) == [f EXCEPT !.cmd_aliases = <<aliases>>]

\* pattern(_pattern)(func)
pattern(f, p) == [f EXCEPT !.cmd_pattern = <<re_compile(p)>>]

\* Command.__init__(name, mod, func); an Optional is <<>> (None) or <<v>>.
Command(name, f) ==
    [name |-> name,
     desc |-> f.cmd_description,
     usage |-> f.cmd_usage,
     usage_optional |-> getattr(f.cmd_usage_optional, FALSE),
     usage_reply |-> getattr(f.cmd_usage_reply, FALSE),
     aliases |-> getattr(f.cmd_aliases, <<>>),
     pattern |-> f.cmd_pattern]

\* A decorator as applied: its kind and its arguments.
Annot(kind, text, optional, reply, aliases) ==
    [kind |-> kind, text |-> text, optional |-> optional, reply |-> reply,
     aliases |-> aliases]

\* Decorator application d yields attributes f.
Apply(f, d) ==
    /\ Len(applied) < MaxAnnot
    /\ func' = f
    /\ applied' = Append(applied, d)
    /\ UNCHANGED <<botvars, argsvars, command, config, response,
                   response_mode, pc, frame, calls, log, tasks, nextHandle>>

\* @command.desc(d)
ApplyDesc ==
    \E d \in Descs : Apply(desc(func, d), Annot("desc", d, FALSE, FALSE, <<>>))

\* @command.usage(u, optional=, reply=)
ApplyUsage ==
    \E u \in Usages, optional \in BOOLEAN, reply \in BOOLEAN :
        Apply(usage(func, u, optional, reply),
              Annot("usage", u, optional, reply, <<>>))

\* @command.alias(*aliases)
ApplyAlias ==
    \E a \in AliasArgs :
        Apply(alias(func, a), Annot("alias", "", FALSE, FALSE, a))

\* @command.pattern(p)
ApplyPattern ==
    \E q \in Patterns :
        Apply(pattern(func, q), Annot("pattern", q, FALSE, FALSE, <<>>))

\* Command(name, mod, func)
BuildCommand ==
    /\ command' = <<Command("cmd", func)>>
    /\ UNCHANGED <<botvars, argsvars, func, applied, config, response,
                   response_mode, pc, frame, calls, log, tasks, nextHandle>>

\* A function being decorated, and Commands built from it.
CmdNext ==
    \/ ApplyDesc
    \/ ApplyUsage
    \/ ApplyAlias
    \/ ApplyPattern
    \/ BuildCommand

CmdSpec == Init /\ [][CmdNext]_vars

\* ----------------------------------------------------------------- the bot
\* The event loop runs its tasks until loop.stop().
LoopRuns == loop = "running"

\* The test of create_and_run's finally clause:
\* bot is None or (bot is not None and not bot.stopping)
finally_stops(b) == ~ b.made \/ (b.made /\ ~ b.stopping)

\* create_and_run leaves through its finally clause.
leave(b) == IF finally_stops(b) THEN "stopped" ELSE loop

\* bot = cls(): the bot is made, with its http session and the task of
\* aria.initialize on the loop, and create_and_run goes on to bot.run().
Construct ==
    /\ LoopRuns
    /\ main = "start"
    /\ bot' = [NoBot EXCEPT !.made = TRUE, !.http = "open", !.aria = "pending"]
    /\ main' = "run"
    /\ UNCHANGED <<stop, loop, argsvars, cmdvars, config, response,
                   response_mode, pc, frame, calls, log, tasks, nextHandle>>

\* cls() raises, before or after it has created the task of
\* aria.initialize: bot stays None and the finally clause stops the loop.
ConstructFails ==
    /\ LoopRuns
    /\ main = "start"
    /\ \E a \in {"none", "pending"} : bot' = [bot EXCEPT !.aria = a]
    /\ main' = "raised"
    /\ loop' = leave(bot')
    /\ UNCHANGED <<stop, argsvars, cmdvars, config, response,
                   response_mode, pc, frame, calls, log, tasks, nextHandle>>

\* The task of aria.initialize ends.
AriaInitialized ==
    /\ LoopRuns
    /\ bot.aria = "pending"
    /\ bot' = [bot EXCEPT !.aria = "done"]
    /\ UNCHANGED <<main, stop, loop, argsvars, cmdvars, config, response,
                   response_mode, pc, frame, calls, log, tasks, nextHandle>>

\* bot.run() starts the client: client.is_initialized becomes true.
ClientStarted ==
    /\ LoopRuns
    /\ main = "run"
    /\ stop.pc = "none"
    /\ ~ bot.client_initialized
    /\ bot' = [bot EXCEPT !.client_initialized = TRUE]
    /\ UNCHANGED <<main, stop, loop, argsvars, cmdvars, config, response,
                   response_mode, pc, frame, calls, log, tasks, nextHandle>>

\* bot.run() has loaded the modules: self.loaded becomes true.
ModulesLoaded ==
    /\ LoopRuns
    /\ main = "run"
    /\ stop.pc = "none"
    /\ ~ bot.loaded
    /\ bot' = [bot EXCEPT !.loaded = TRUE]
    /\ UNCHANGED <<main, stop, loop, argsvars, cmdvars, config, response,
                   response_mode, pc, frame, calls, log, tasks, nextHandle>>

\* await bot.run() ends, returning or raising, and create_and_run leaves
\* through its finally clause. (When run() itself awaits stop(), not
\* before stop() is over.)
RunEnds ==
    /\ LoopRuns
    /\ main = "run"
    /\ stop.by = "main" => stop.pc = "done"
    /\ \E outcome \in {"returned", "raised"} : main' = outcome
    /\ loop' = leave(bot)
    /\ UNCHANGED <<bot, stop, argsvars, cmdvars, config, response,
                   response_mode, pc, frame, calls, log, tasks, nextHandle>>

\* Bot.stop() is called, by run() in the main task or by another task:
\* self.stopping = True, up to await self.http.close().
StopCalled ==
    /\ LoopRuns
    /\ main = "run"
    /\ stop.pc = "none"
    /\ bot' = [bot EXCEPT !.stopping = TRUE]
    /\ \E by \in {"main", "task"} : stop' = [pc |-> "close", by |-> by]
    /\ UNCHANGED <<main, loop, argsvars, cmdvars, config, response,
                   response_mode, pc, frame, calls, log, tasks, nextHandle>>

\* http.close() returns; if self.loaded: await self.dispatch_event("stopped")
\* and, in the same branch, finalize(); else stop() is over.
HttpClosed ==
    /\ LoopRuns
    /\ stop.pc = "close"
    /\ bot' = [bot EXCEPT !.http = "closed"]
    /\ stop' = [stop EXCEPT !.pc = IF bot.loaded THEN "dispatch" ELSE "done"]
    /\ UNCHANGED <<main, loop, argsvars, cmdvars, config, response,
                   response_mode, pc, frame, calls, log, tasks, nextHandle>>

\* for task in asyncio.all_tasks(): if task is not asyncio.current_task():
\* task.cancel() -- the delete() tasks not yet over, the handlers at an
\* await, the task of aria.initialize and, unless it runs stop() itself,
\* the main task, which leaves create_and_run through its finally clause.
cancel_all ==
    /\ tasks' = [i \in DOMAIN tasks |->
                    IF tasks[i].state = "sleeping"
                    THEN [tasks[i] EXCEPT !.state = "cancelled"]
                    ELSE tasks[i]]
    /\ pc' = [c \in Contexts |-> "idle"]
    /\ frame' = [c \in Contexts |->
                    IF pc[c] = "awaiting"
                    THEN [frame[c] EXCEPT !.outcome = "cancelled"]
                    ELSE frame[c]]
    /\ main' = IF stop.by # "main" /\ main = "run" THEN "cancelled" ELSE main
    /\ loop' = IF stop.by # "main" /\ main = "run" THEN leave(bot) ELSE loop

\* dispatch_event("stopped") returns and finalize() starts:
\* if self.client.is_initialized: await self.client.stop(); otherwise on
\* to the cancelling of the tasks, up to await loop.shutdown_asyncgens().
Dispatched ==
    /\ LoopRuns
    /\ stop.pc = "dispatch"
    /\ IF bot.client_initialized
       THEN /\ stop' = [stop EXCEPT !.pc = "client_stop"]
            /\ UNCHANGED <<main, loop, pc, frame, tasks>>
       ELSE /\ stop' = [stop EXCEPT !.pc = "asyncgens"]
            /\ cancel_all
    /\ bot' = [bot EXCEPT !.aria =
                  IF ~ bot.client_initialized /\ @ = "pending"
                  THEN "cancelled" ELSE @]
    /\ UNCHANGED <<argsvars, cmdvars, config, response, response_mode,
                   calls, log, nextHandle>>

\* client.stop() returns: the tasks are cancelled, up to
\* await loop.shutdown_asyncgens().
ClientStopped ==
    /\ LoopRuns
    /\ stop.pc = "client_stop"
    /\ stop' = [stop EXCEPT !.pc = "asyncgens"]
    /\ cancel_all
    /\ bot' = [bot EXCEPT !.client_initialized = FALSE,
                          !.aria = IF @ = "pending" THEN "cancelled" ELSE @]
    /\ UNCHANGED <<argsvars, cmdvars, config, response, response_mode,
                   calls, log, nextHandle>>

\* loop.shutdown_asyncgens() returns: self.loop.stop(), and stop() is over.
AsyncgensShutDown ==
    /\ LoopRuns
    /\ stop.pc = "asyncgens"
    /\ stop' = [stop EXCEPT !.pc = "done"]
    /\ loop' = "stopped"
    /\ UNCHANGED <<bot, main, argsvars, cmdvars, config, response,
                   response_mode, pc, frame, calls, log, tasks, nextHandle>>

\* The handlers of a running bot go on until finalize() has cancelled the
\* tasks.
Handling == LoopRuns /\ main = "run" /\ stop.pc # "asyncgens"

\* The handler of BotSpec asks for its responses to be deleted.
BotArgs == {[DefaultArgs EXCEPT !.delete_after = MaxDelay]}

\* A bot from create_and_run to the end of stop(), with a handler whose
\* responses leave delete() tasks on the loop.
BotNext ==
    \/ Construct
    \/ ConstructFails
    \/ AriaInitialized
    \/ ClientStarted
    \/ ModulesLoaded
    \/ RunEnds
    \/ StopCalled
    \/ HttpClosed
    \/ Dispatched
    \/ ClientStopped
    \/ AsyncgensShutDown
    \/ Handling /\ calls[1] < MaxCalls /\ CallRespond(1, BotArgs)
    \/ LoopRuns /\ TransportReturns(1)
    \/ LoopRuns /\ Tick
    \/ \E i \in DOMAIN tasks : LoopRuns /\ DeleteRuns(i)

BotSpec == Init /\ [][BotNext]_vars

\* ------------------------------------------------------------- observation
\* The requests the current (or last) call of context c has made so far.
CallLog(c) == SelectSeq(log, LAMBDA e : e.ctx = c /\ e.call = calls[c])

\* The requests of context c that bot.respond has answered with a message.
Delivered(c) == SelectSeq(log, LAMBDA e : e.ctx = c /\ e.ok)

\* Context c is in respond_split, or its last call was respond_split.
InSplit(c) == frame[c].kind = "respond_split"

\* The last call of context c is over.
CallOver(c) == pc[c] = "idle" /\ frame[c].outcome \in {"returned", "raised"}

\* Two texts hold the same characters (every empty text is the same text).
TextEq(a, b) == (StrLen(a) = 0 /\ StrLen(b) = 0) \/ a = b

\* a + b for two slices: the slice that spans both when b starts where a
\* ends, and otherwise a string that is no slice of any source.
Join(a, b) ==
    IF StrLen(a) = 0 THEN b
    ELSE IF StrLen(b) = 0 THEN a
    ELSE IF a.src = b.src /\ a.hi = b.lo
         THEN [src |-> a.src, lo |-> a.lo, hi |-> b.hi]
         ELSE [src |-> "other", lo |-> 0, hi |-> StrLen(a) + StrLen(b)]

\* The pages of requests es with their added markers stripped, concatenated
\* in the order of sending.
RECURSIVE Stripped(_)
Stripped(es) ==
    IF es = <<>> THEN Text("raw", 0)
    ELSE Join(Head(es).req.text.body, Stripped(Tail(es)))

\* ------------------------------------------------------------------- C1
\* C1 as stated: every page respond_split hands to respond_multi is at most
\* MESSAGE_CHAR_LIMIT characters long, markers included.
C1_EveryPageWithinLimit ==
    \A c \in Contexts :
        (InSplit(c) /\ pc[c] = "awaiting")
            => PageLen(frame[c].req.text) <= MESSAGE_CHAR_LIMIT

\* C1 as amended: a page is at most MESSAGE_CHAR_LIMIT characters long,
\* markers included, unless it is the last page max_pages allows and more
\* than MESSAGE_CHAR_LIMIT characters remain; that page is the whole
\* remaining text, with "..." in front when it is not the first page.
C1_PageWithinLimitUnlessLastAllowed ==
    \A c \in Contexts :
        (InSplit(c) /\ pc[c] = "awaiting") =>
            LET f == frame[c]
            IN  IF f.pages_sent = f.max_pages - 1
                   /\ StrLen(f.text) > MESSAGE_CHAR_LIMIT
                THEN PageLen(f.req.text)
                        = StrLen(f.text) + (IF f.pages_sent = 0 THEN 0 ELSE 3)
                ELSE PageLen(f.req.text) <= MESSAGE_CHAR_LIMIT

\* A page between two others, with both markers, fills the limit exactly.
C1_Witness ==
    \E c \in Contexts :
        /\ InSplit(c) /\ pc[c] = "awaiting"
        /\ frame[c].req.text.pre /\ frame[c].req.text.suf
        /\ PageLen(frame[c].req.text) = MESSAGE_CHAR_LIMIT

\* ------------------------------------------------------------------- C2
\* C2: when respond_split of a non-empty text returns with no text left,
\* the pages it sent, stripped of their added markers and concatenated in
\* the order of sending, are the text it split (the redacted text when it
\* redacts).
C2_RoundTrip ==
    \A c \in Contexts :
        (/\ InSplit(c) /\ frame[c].outcome = "returned"
         /\ StrLen(frame[c].start) > 0
         /\ StrLen(frame[c].text) = 0)
            => /\ Len(CallLog(c)) >= 1
               /\ \A k \in DOMAIN CallLog(c) : CallLog(c)[k].ok
               /\ TextEq(Stripped(CallLog(c)), frame[c].start)

\* A text of three pages was sent whole.
C2_Witness ==
    \E c \in Contexts :
        /\ InSplit(c) /\ frame[c].outcome = "returned"
        /\ StrLen(frame[c].text) = 0
        /\ Len(CallLog(c)) = 3
        /\ frame[c].redact

\* ------------------------------------------------------------------- C3
\* The one request a call made is the text itself, with no marker.
OnePlainPage(c) ==
    /\ Len(CallLog(c)) = 1
    /\ ~ CallLog(c)[1].req.text.pre
    /\ ~ CallLog(c)[1].req.text.suf
    /\ TextEq(CallLog(c)[1].req.text.body, frame[c].start)

\* C3 as stated: for every text of at most MESSAGE_CHAR_LIMIT characters
\* respond_split sends exactly one page, equal to the text (after optional
\* redaction), with no marker at either end.
C3_ShortTextOnePage ==
    \A c \in Contexts :
        (/\ InSplit(c) /\ CallOver(c)
         /\ StrLen(frame[c].start) <= MESSAGE_CHAR_LIMIT)
            => OnePlainPage(c)

\* C3 as amended: the same, for every non-empty text and max_pages >= 1.
C3_ShortNonEmptyTextOnePage ==
    \A c \in Contexts :
        (/\ InSplit(c) /\ CallOver(c)
         /\ StrLen(frame[c].start) <= MESSAGE_CHAR_LIMIT
         /\ StrLen(frame[c].start) > 0
         /\ frame[c].max_pages >= 1)
            => OnePlainPage(c)

\* A text of exactly MESSAGE_CHAR_LIMIT characters went out as one page,
\* after an earlier response of the same context.
C3_Witness ==
    \E c \in Contexts :
        /\ InSplit(c) /\ frame[c].outcome = "returned"
        /\ StrLen(frame[c].start) = MESSAGE_CHAR_LIMIT
        /\ calls[c] = 2
        /\ OnePlainPage(c)

\* ------------------------------------------------------------------- C4
\* C4: with max_pages = 1 a text longer than MESSAGE_CHAR_LIMIT goes out
\* as exactly one page, the whole text, with no marker at either end.
C4_OnePageAllowed ==
    \A c \in Contexts :
        (/\ InSplit(c) /\ CallOver(c)
         /\ frame[c].max_pages = 1
         /\ StrLen(frame[c].start) > MESSAGE_CHAR_LIMIT)
            => /\ OnePlainPage(c)
               /\ PageLen(CallLog(c)[1].req.text) = StrLen(frame[c].start)

\* A text of 2 * MESSAGE_CHAR_LIMIT characters went out as one page.
C4_Witness ==
    \E c \in Contexts :
        /\ InSplit(c) /\ frame[c].outcome = "returned"
        /\ frame[c].max_pages = 1
        /\ StrLen(frame[c].start) = 2 * MESSAGE_CHAR_LIMIT
        /\ OnePlainPage(c)

\* ------------------------------------------------------------------- C10
\* C10: when bot.respond fails on page k of respond_split, the call ends
\* with the error at once: the failed request is the last one made, the
\* k - 1 requests before it were delivered, and the context's response is
\* the message of the last delivery.
C10_FailureAborts ==
    \A c \in Contexts :
        (InSplit(c) /\ frame[c].outcome = "raised") =>
            LET L == CallLog(c)
                k == Len(L)
                D == Delivered(c)
            IN  /\ pc[c] = "idle"
                /\ k >= 1
                /\ ~ L[k].ok
                /\ \A j \in 1 .. (k - 1) : L[j].ok
                /\ frame[c].pages_sent = k - 1
                /\ k > 1 => response[c] = L[k - 1].handle
                /\ response[c] = IF D = <<>> THEN NoMsg ELSE D[Len(D)].handle

\* The second page failed after the first was delivered.
C10_Witness ==
    \E c \in Contexts :
        /\ InSplit(c) /\ frame[c].outcome = "raised"
        /\ Len(CallLog(c)) = 2
        /\ response[c] = CallLog(c)[1].handle
        /\ response[c] # NoMsg

\* ------------------------------------------------------------------- C5
\* The last delivery of context c: its message and its mode.
LastHandle(c) ==
    IF Delivered(c) = <<>> THEN NoMsg
    ELSE Delivered(c)[Len(Delivered(c))].handle

LastMode(c) ==
    IF Delivered(c) = <<>> THEN "None"
    ELSE Delivered(c)[Len(Delivered(c))].req.mode

\* C5: a respond_multi call given no mode and no message goes out, before
\* the context has a response, to the triggering message with mode None,
\* and afterwards with mode "reply" to the message the last call returned;
\* a mode or a message that is given is used as given.
C5_Chaining ==
    \A c \in Contexts :
        (pc[c] = "awaiting" /\ frame[c].kind = "respond_multi") =>
            LET a == frame[c].args
                req == frame[c].req
            IN  /\ req.mode = IF a.mode # "None" THEN a.mode
                              ELSE IF LastHandle(c) = NoMsg THEN "None"
                              ELSE "reply"
                /\ req.msg = IF a.msg # NoMsg THEN a.msg
                             ELSE IF LastHandle(c) = NoMsg THEN msg(c)
                             ELSE LastHandle(c)

\* A second respond_multi replies to the message of the first.
C5_Witness ==
    \E c \in Contexts :
        /\ pc[c] = "awaiting" /\ frame[c].kind = "respond_multi"
        /\ frame[c].args.mode = "None" /\ frame[c].args.msg = NoMsg
        /\ Len(Delivered(c)) = 1
        /\ Delivered(c)[1].req.msg = msg(c)
        /\ Delivered(c)[1].req.mode = "None"
        /\ frame[c].req.mode = "reply"
        /\ frame[c].req.msg = Delivered(c)[1].handle

\* ------------------------------------------------------------------- C6
\* C6: a delete() task deletes the message its own respond call sent, and
\* no message is deleted by two tasks.
C6_DeletesOwnMessageOnce ==
    \A i \in DOMAIN tasks :
        tasks[i].state = "done" =>
            /\ tasks[i].target = tasks[i].sent
            /\ \A j \in DOMAIN tasks :
                  (j # i /\ tasks[j].state = "done")
                      => tasks[j].target # tasks[i].target

\* ------------------------------------------------------------------- C7
\* The requests delivered with a deletion asked for.
Deleting == SelectSeq(log, LAMBDA e : e.ok /\ e.req.delete_after # 0)

\* C7: delete() runs as a task of its own: respond returns the message in
\* the step that creates the task, the task deletes nothing before its
\* sleep is over, a deletion that fails changes nothing of the handler or
\* its context, and there is one task for each delivery with a nonzero
\* delete_after and none for the others.
C7_DeferredDeletion ==
    /\ [](/\ \A i \in DOMAIN tasks :
                tasks[i].state \in {"done", "failed"}
                    => tasks[i].slept >= tasks[i].delete_after
          /\ Len(tasks) = Len(Deleting))
    /\ [][/\ Len(tasks') > Len(tasks) =>
                LET t == tasks'[Len(tasks')]
                IN  /\ t.state = "sleeping" /\ t.slept = 0
                    /\ frame[t.ctx].kind \in {"respond", "respond_multi"}
                          => /\ pc'[t.ctx] = "idle"
                             /\ frame'[t.ctx].outcome = "returned"
                             /\ frame'[t.ctx].value = t.sent
          /\ \A i \in DOMAIN tasks :
                (tasks[i].state = "sleeping" /\ tasks'[i].state = "failed")
                    => UNCHANGED <<pc, frame, response, response_mode, log>>
         ]_vars

\* respond has returned the message while its delete() task still sleeps.
C7_Witness ==
    \E i \in DOMAIN tasks :
        /\ tasks[i].state = "sleeping"
        /\ tasks[i].slept < tasks[i].delete_after
        /\ pc[tasks[i].ctx] = "idle"
        /\ frame[tasks[i].ctx].outcome = "returned"
        /\ frame[tasks[i].ctx].value = tasks[i].sent

\* ------------------------------------------------------------------- C8
\* C8: respond hands bot.respond the message of the last delivery to edit
\* exactly when reuse_response is set and the mode asked for is the mode of
\* that delivery, and nothing to edit otherwise; it addresses the message
\* given as msg, and the triggering message when none is given.
C8_ReuseAndTarget ==
    \A c \in Contexts :
        (pc[c] = "awaiting" /\ frame[c].kind = "respond") =>
            LET a == frame[c].args
                req == frame[c].req
            IN  /\ req.response =
                      IF a.reuse_response /\ a.mode = LastMode(c)
                      THEN LastHandle(c) ELSE NoMsg
                /\ req.msg = IF a.msg # NoMsg THEN a.msg ELSE msg(c)
                /\ req.mode = a.mode

\* respond hands over the earlier reply to edit.
C8_Witness ==
    \E c \in Contexts :
        /\ pc[c] = "awaiting" /\ frame[c].kind = "respond"
        /\ frame[c].args.reuse_response
        /\ frame[c].args.mode = "reply"
        /\ frame[c].req.response # NoMsg
        /\ frame[c].req.response = LastHandle(c)

\* ------------------------------------------------------------------- C9
\* C9: the context's response and response_mode are the message and the
\* mode of its last delivery (None before the first); a call whose request
\* fails ends with the error, and a task exists only for a delivery.
C9_StateFollowsDeliveries ==
    /\ \A c \in Contexts :
          /\ response[c] = LastHandle(c)
          /\ response_mode[c] = LastMode(c)
          /\ (CallOver(c) /\ CallLog(c) # <<>>) =>
                LET e == CallLog(c)[Len(CallLog(c))]
                IN  /\ frame[c].outcome = "raised" <=> ~ e.ok
                    /\ frame[c].outcome = "returned" => frame[c].value = e.handle
    /\ Len(tasks) = Len(Deleting)
    /\ \A i \in DOMAIN tasks :
          /\ tasks[i].sent = Deleting[i].handle
          /\ tasks[i].delete_after = Deleting[i].req.delete_after

\* A request with another mode and a deletion asked for failed after a
\* delivery: the response and its mode are those of the delivery.
C9_Witness ==
    \E c \in Contexts :
        /\ CallOver(c) /\ frame[c].outcome = "raised"
        /\ frame[c].req.delete_after # 0
        /\ frame[c].req.mode # response_mode[c]
        /\ response[c] # NoMsg
        /\ tasks = <<>>

\* ------------------------------------------------------------------- C15
\* max(0, max_pages)
PagesAllowed(c) == IF frame[c].max_pages > 0 THEN frame[c].max_pages ELSE 0

\* C15: respond_split ends whenever its calls of bot.respond come back:
\* each page delivered shortens the remaining text and adds one to
\* pages_sent, no more than max(0, max_pages) pages are sent, and the call
\* that returns, with text left or not, returns the message of the last
\* page (None when it sent none).
C15_Terminates ==
    /\ [][\A c \in Contexts :
            (/\ InSplit(c) /\ pc[c] = "awaiting"
             /\ Len(Delivered(c)') = Len(Delivered(c)) + 1)
                => /\ StrLen(frame'[c].text) < StrLen(frame[c].text)
                   /\ frame'[c].pages_sent = frame[c].pages_sent + 1]_vars
    /\ [](\A c \in Contexts :
            InSplit(c) =>
                /\ Len(CallLog(c)) <= PagesAllowed(c)
                /\ frame[c].pages_sent <= PagesAllowed(c)
                /\ frame[c].outcome = "returned" =>
                      /\ Len(CallLog(c)) = frame[c].pages_sent
                      /\ frame[c].value =
                            IF CallLog(c) = <<>> THEN NoMsg
                            ELSE CallLog(c)[Len(CallLog(c))].handle)
    /\ \A c \in Contexts : InSplit(c) ~> (InSplit(c) /\ CallOver(c))

\* The page limit was reached with text left, and the call returned the
\* message of its last page.
C15_Witness ==
    \E c \in Contexts :
        /\ InSplit(c) /\ frame[c].outcome = "returned"
        /\ StrLen(frame[c].text) > 0
        /\ frame[c].pages_sent = frame[c].max_pages
        /\ frame[c].pages_sent >= 2
        /\ frame[c].value = CallLog(c)[Len(CallLog(c))].handle

\* ------------------------------------------------------------------- C16
\* C16: respond_split called with an empty text or with max_pages <= 0
\* returns None in the step of the call: it makes no request of
\* bot.respond, creates no delete() task and leaves the context's response
\* and response_mode as they were.
C16_NothingToSend ==
    /\ [][\A c \in Contexts :
            (/\ calls'[c] = calls[c] + 1
             /\ frame'[c].kind = "respond_split"
             /\ \/ StrLen(frame'[c].input) = 0
                \/ frame'[c].max_pages <= 0)
                => /\ pc'[c] = "idle"
                   /\ frame'[c].outcome = "returned"
                   /\ frame'[c].value = NoMsg
                   /\ UNCHANGED <<response, response_mode, log, tasks,
                                  nextHandle>>]_vars
    /\ [](\A c \in Contexts :
            (/\ InSplit(c)
             /\ \/ StrLen(frame[c].input) = 0
                \/ frame[c].max_pages <= 0)
                => CallOver(c) /\ CallLog(c) = <<>>)

\* respond_split of an empty text, with pages allowed and a deletion asked
\* for, returned None and left the earlier response in place.
C16_Witness ==
    \E c \in Contexts :
        /\ InSplit(c) /\ frame[c].outcome = "returned"
        /\ StrLen(frame[c].input) = 0
        /\ frame[c].max_pages >= 1
        /\ frame[c].kwargs.delete_after # 0
        /\ frame[c].value = NoMsg
        /\ response[c] # NoMsg
        /\ tasks = <<>>

\* ------------------------------------------------------------------- C17
\* C17: of the pages of a respond_split that returned, a page starts with
\* an added "..." exactly when it is not the first, and ends with an added
\* "..." exactly when another page follows it.
C17_MarkersTellMore ==
    \A c \in Contexts :
        (InSplit(c) /\ frame[c].outcome = "returned") =>
            \A k \in DOMAIN CallLog(c) :
                /\ CallLog(c)[k].req.text.pre <=> k > 1
                /\ CallLog(c)[k].req.text.suf <=> k < Len(CallLog(c))

\* ------------------------------------------------------------------- C18
\* C18: the pages of a respond_split that returned, stripped of their
\* markers, cover the whole text, also when the page limit ended the loop.
C18_NothingLeftOut ==
    \A c \in Contexts :
        (/\ InSplit(c) /\ frame[c].outcome = "returned"
         /\ StrLen(frame[c].start) > 0
         /\ frame[c].max_pages >= 1)
            => TextEq(Stripped(CallLog(c)), frame[c].start)

\* ------------------------------------------------------------------- C19
\* C19: respond_split that redacts splits the redacted text; respond_split
\* that does not redact splits the text as given and hands every page to
\* bot.respond with redact off.
C19_RedactionHonoured ==
    \A c \in Contexts :
        (InSplit(c) /\ pc[c] = "awaiting") =>
            /\ frame[c].redact => frame[c].start.src = "redacted"
            /\ ~ frame[c].redact =>
                  /\ frame[c].start = frame[c].input
                  /\ frame[c].req.text.body.src = "raw"
                  /\ ~ frame[c].req.redact

\* ------------------------------------------------------------------- C12
\* The context the transport first returned message h to.
Owner(h) ==
    log[CHOOSE i \in DOMAIN log :
            /\ log[i].handle = h
            /\ \A k \in 1 .. (i - 1) : log[k].handle # h].ctx

\* The step is the answer of bot.respond to a request of context c.
Answered(c) ==
    /\ Len(log') = Len(log) + 1
    /\ log'[Len(log')].ctx = c

\* C12: the requests of one context reach bot.respond in call order: a
\* call is entered only when the call before it is over, every request
\* answered belongs to the context's current call, and a request is made
\* with the context's response already that of its last delivery. Handlers
\* of other contexts running interleaved change nothing of this: a
\* context's response and mode change only in the answer to one of its own
\* requests, and its response is a message first returned to itself.
C12_CallOrder ==
    /\ [](\A c \in Contexts :
            /\ response[c] = LastHandle(c)
            /\ response[c] # NoMsg => Owner(response[c]) = c
            /\ response[c] \notin {msg(d) : d \in Contexts}
            /\ \A i, j \in DOMAIN log :
                  (i < j /\ log[i].ctx = c /\ log[j].ctx = c)
                      => log[i].call <= log[j].call)
    /\ [][\A c \in Contexts :
            /\ calls'[c] # calls[c] =>
                  /\ calls'[c] = calls[c] + 1
                  /\ pc[c] = "idle"
                  /\ \A i \in DOMAIN log : log[i].ctx = c => log[i].call <= calls[c]
            /\ Answered(c) =>
                  /\ pc[c] = "awaiting"
                  /\ log'[Len(log')].call = calls[c]
                  /\ log'[Len(log')].req = frame[c].req
                  /\ \A i \in DOMAIN log : log'[i] = log[i]
            /\ (response'[c] # response[c] \/ response_mode'[c] # response_mode[c])
                  => /\ Answered(c)
                     /\ log'[Len(log')].ok
                     /\ response'[c] = log'[Len(log')].handle
                     /\ response_mode'[c] = log'[Len(log')].req.mode
            /\ (frame'[c] # frame[c] \/ pc'[c] # pc[c])
                  => (Answered(c) \/ calls'[c] # calls[c])]_vars

\* Context 1 has made its second delivery of a second call after a
\* delivery to context 2 that came after its first, while context 2 is
\* in the middle of a respond_split, and each context has its own response.
C12_Witness ==
    /\ \E i, j, k \in DOMAIN log :
          /\ i < j /\ j < k
          /\ log[i].ctx = 1 /\ log[i].call = 1 /\ log[i].ok
          /\ log[j].ctx = 2 /\ log[j].ok
          /\ log[k].ctx = 1 /\ log[k].call = 2 /\ log[k].ok
    /\ InSplit(2) /\ pc[2] = "awaiting" /\ frame[2].pages_sent = 1
    /\ response[1] # NoMsg /\ response[2] # NoMsg
    /\ response[1] # response[2]

\* ------------------------------------------------------------------- C13
\* The lookups of args made on context c.
ArgsLookups(c) == SelectSeq(lookups[c], LAMBDA l : l.name = "args")

\* C13: args is computed at most once for a context: the first lookup
\* computes segments[1:] and stores it, every later lookup returns that
\* same stored sequence (same object, same items) without computing again;
\* the lookup of any other missing attribute raises AttributeError and
\* changes nothing.
C13_ArgsComputedOnce ==
    /\ [](\A c \in Contexts :
            /\ Cardinality({i \in DOMAIN lookups[c] :
                                lookups[c][i].computed}) <= 1
            /\ ArgsLookups(c) = <<>> => args[c] = <<>>
            /\ \A i \in DOMAIN ArgsLookups(c) :
                  LET l == ArgsLookups(c)[i]
                  IN  /\ l.outcome = "returned"
                      /\ l.computed <=> i = 1
                      /\ l.value = ArgsLookups(c)[1].value
                      /\ l.value = args[c]
                      /\ Len(l.value[1].items) = Len(segments[c]) - 1
                      /\ \A k \in DOMAIN l.value[1].items :
                            l.value[1].items[k] = segments[c][k + 1]
            /\ \A i \in DOMAIN lookups[c] :
                  lookups[c][i].name # "args" =>
                      /\ lookups[c][i].outcome = "AttributeError"
                      /\ ~ lookups[c][i].computed
                      /\ lookups[c][i].value = <<>>
            /\ \A d \in Contexts \ {c} :
                  (args[c] # <<>> /\ args[d] # <<>>)
                      => args[c][1].id # args[d][1].id)
    /\ [][\A c \in Contexts :
            (/\ lookups'[c] # lookups[c]
             /\ lookups'[c][Len(lookups'[c])].name # "args")
                => /\ lookups'[c] =
                        Append(lookups[c], lookups'[c][Len(lookups'[c])])
                   /\ \A d \in Contexts \ {c} : lookups'[d] = lookups[d]
                   /\ UNCHANGED <<args, segments, nextObj, botvars, cmdvars,
                                  config, response, response_mode, pc, frame,
                                  calls, log, tasks, nextHandle>>]_vars

\* A context with two arguments has had args looked up, then a missing
\* attribute, then args again, while the other context has its own args.
C13_Witness ==
    \E c \in Contexts :
        /\ Len(segments[c]) = 3
        /\ Len(lookups[c]) = 3
        /\ lookups[c][1].name = "args"
        /\ lookups[c][2].name = "arg"
        /\ lookups[c][3].name = "args"
        /\ lookups[c][3].value = lookups[c][1].value
        /\ \E d \in Contexts \ {c} : args[d] # <<>>

\* ------------------------------------------------------------------- C14
\* The decorators of one kind applied so far, in order.
OfKind(kind) == SelectSeq(applied, LAMBDA d : d.kind = kind)

\* The last decorator of a kind applied (one is assumed to have been).
LastOf(kind) == OfKind(kind)[Len(OfKind(kind))]

\* C14: the decorators are independent and the last one applied wins: a
\* Command built from a function carries, for each kind of decorator, the
\* arguments of the last one of that kind applied, and the default (no
\* description, no usage, usage_optional and usage_reply false, no alias,
\* no pattern) for a kind never applied; applying a decorator of one kind
\* leaves what the other kinds have set as it is.
C14_LastAppliedWins ==
    /\ [][command' # command =>
            LET cmd == command'[1]
            IN  /\ Len(command') = 1
                /\ cmd.desc = IF OfKind("desc") = <<>> THEN <<>>
                              ELSE <<LastOf("desc").text>>
                /\ cmd.usage = IF OfKind("usage") = <<>> THEN <<>>
                               ELSE <<LastOf("usage").text>>
                /\ cmd.usage_optional = IF OfKind("usage") = <<>> THEN FALSE
                                        ELSE LastOf("usage").optional
                /\ cmd.usage_reply = IF OfKind("usage") = <<>> THEN FALSE
                                     ELSE LastOf("usage").reply
                /\ cmd.aliases = IF OfKind("alias") = <<>> THEN <<>>
                                 ELSE LastOf("alias").aliases
                /\ IF OfKind("pattern") = <<>> THEN cmd.pattern = <<>>
                   ELSE /\ Len(cmd.pattern) = 1
                        /\ cmd.pattern[1].pattern = LastOf("pattern").text]_vars
    /\ [][applied' # applied =>
            LET kind == applied'[Len(applied')].kind
            IN  /\ command' = command
                /\ kind # "desc" =>
                      func'.cmd_description = func.cmd_description
                /\ kind # "usage" =>
                      /\ func'.cmd_usage = func.cmd_usage
                      /\ func'.cmd_usage_optional = func.cmd_usage_optional
                      /\ func'.cmd_usage_reply = func.cmd_usage_reply
                /\ kind # "alias" => func'.cmd_aliases = func.cmd_aliases
                /\ kind # "pattern" => func'.cmd_pattern = func.cmd_pattern]_vars

\* A Command built after usage, desc and usage again: it has the second
\* usage with its flag, the description, and no alias and no pattern.
C14_Witness ==
    /\ Len(applied) = 3
    /\ applied[1].kind = "usage" /\ applied[1].text = "u1"
    /\ ~ applied[1].optional /\ applied[1].reply
    /\ applied[2].kind = "desc"
    /\ applied[3].kind = "usage" /\ applied[3].text = "u2"
    /\ applied[3].optional /\ ~ applied[3].reply
    /\ command # <<>>
    /\ command[1].usage = <<"u2">>
    /\ command[1].usage_optional /\ ~ command[1].usage_reply
    /\ command[1].desc = <<applied[2].text>>
    /\ command[1].aliases = <<>> /\ command[1].pattern = <<>>

\* ------------------------------------------------------------------- C11
\* No task but the one running stop() is left on the loop: no delete()
\* task in its sleep, no handler at an await, no task of aria.initialize,
\* and no main task unless it runs stop() itself.
NoTaskLeft ==
    /\ \A i \in DOMAIN tasks : tasks[i].state # "sleeping"
    /\ \A c \in Contexts : pc[c] # "awaiting"
    /\ bot.aria # "pending"
    /\ stop.by # "main" => main # "run"

\* C11: whenever Bot.stop() completes, every outstanding task other than
\* the one running stop(), the pending delete() tasks in particular, has
\* been cancelled, whether or not the modules are loaded.
C11_StopCancelsTasks ==
    [][(stop.pc # "done" /\ stop'.pc = "done") => NoTaskLeft']_vars

\* ------------------------------------------------------------------- C20
\* create_and_run has finished: it returned, raised or was cancelled.
MainOver == main \in {"returned", "raised", "cancelled"}

\* C20: every run of the bot ends with the loop being stopped: once
\* create_and_run has finished and any stop() that was started is over,
\* loop.stop() has been called, whatever stopping and loaded are.
C20_LoopStopped ==
    (MainOver /\ stop.pc \in {"none", "done"}) => loop = "stopped"

=============================================================================
